---- MODULE Spec2Model ----
(***************************************************************************)
(* Model of the unrust runtime core:                                       *)
(*   - src/src/world/world.rs : the World's actor lifecycle (the component *)
(*     watcher, active_starting_actors, step, reset, the game-object list) *)
(*   - src/src/engine/render/texture.rs : the lazily compiled Texture.     *)
(*                                                                         *)
(* Strong references are modelled by their holders: an Rc<GameObject> or   *)
(* Arc<Component> is alive exactly while some holder of the model still    *)
(* has it, and a Weak::upgrade succeeds exactly then.  A failed            *)
(* Option::unwrap is the terminal state pc = "panicked".                   *)
(*                                                                         *)
(* World::step calls user code (Actor::start_rc / Actor::update_rc) with   *)
(* `&mut World`; the step is therefore split at these calls, and the       *)
(* scene operations of the user are enabled between frames and inside a    *)
(* running callback only.                                                  *)
(***************************************************************************)
EXTENDS Integers, Sequences, FiniteSets, TLC

\* ------------------------------------------------------------------ bounds
\* the number of scene operations of the user in a run
MaxOps == 4
MaxTexCalls == 3
MaxUnit == 1
\* the depth of the directory part of an asset name
MaxDepth == 1

\* The Ref<GameObject> guards of the root user code keeps at one time.
MaxGuards == 1

None == -1
Root == 0

\* Each operation creates at most one game object or component.
GameObjects == 1..MaxOps
Objects == {Root} \cup GameObjects
Actors == 1..MaxOps

\* A component that holds no Box<Actor>.  The World keeps nothing of such a
\* component, so the model does not follow the individual ones.
Plain == 0

Components == Actors \cup {Plain}

IsActor_Any(c) == TRUE

\* c.try_as::<Box<Actor>>().is_some()
IsActor(c) == c \in Actors

\* An ActorPair (world.rs:18) is (go, c).  A history field rides along:
\*   mid : the Add event was delivered after the running step had begun
\*         (forgotten when the step ends).
NoPair == [go |-> None, c |-> None, mid |-> FALSE]

NoPanic == [at |-> "none", c |-> None, live |-> FALSE, idle |-> FALSE]

VARIABLES
    \* ---- World (world.rs:48-62) and the scene it watches
    golist,       \* World.golist : Vec<Handle<GameObject>>
    actors,       \* World.actors : Vec<ActorPair>
    new_actors,   \* World.new_actors : Rc<RefCell<Vec<ActorPair>>>
    goUsed,       \* game objects created so far
    goHeld,       \* game objects the user holds a Handle to
    comUsed,      \* actor components created so far
    comOwner,     \* component -> the object whose component list holds it
    comHeld,      \* components the user holds an Arc to
    \* ---- the running step
    pc,           \* "idle", "starting", "in_start", "updating", "in_update", "panicked"
    starting,     \* local `starting` of active_starting_actors
    si,           \* position of the iteration over `starting`
    snapshot,     \* local `actor_components` of step: what is left to iterate
    cur,          \* the (go, com) strong locals of the running callback
    goBorrowed,   \* the running callback holds go.borrow_mut(): the default
                  \* start_rc (world.rs:292-294) and update_rc (298-300) do
    panic,        \* where the program panicked
    \* ---- the guards of the root user code holds (world.rs:157-163)
    rootRefs,     \* number of Ref<GameObject> it got from World::root
    rootMutHeld,  \* it holds the RefMut<GameObject> of World::root_mut
    \* ---- history
    nOps,         \* number of scene operations of the user so far
    lifecycle,    \* component -> what its Actor has observed so far
    diedIdle,     \* components of listed pairs whose last strong reference
                  \* went between the last frame and the next
    snapLive,     \* components that resolved when the snapshot was taken
    activated,    \* `actors` as the activation pass of the running step
                  \* left it
    \* ---- Texture (texture.rs:25-29) and the graphics backend
    kind,         \* Texture.kind : "Image", "CubeMap" or "RenderTexture"
    size,         \* the size of a RenderTexture
    filtering,    \* Texture.filtering
    res,          \* the state of each backing Resource<RgbaImage>
    gl_state,     \* Texture.gl_state : None or the WebGLTexture of the state
    glCalls,      \* the calls the backend has received, in order
    glTextures,   \* number of textures the backend has created
    lastResult,   \* the AssetResult of the last prepare/bind call
    results,      \* history: the AssetResult of every prepare/bind call
    nTexCalls,    \* number of prepare/bind calls made
    \* ---- the asset pipeline of Texture (texture.rs:62-112)
    fname,        \* the asset name, a sequence of characters
    files,        \* the file names gather has requested, in order
    resFile,      \* the file each backing Resource is loaded from
    apc           \* "named", "gathered" or "loaded"

wvars == <<golist, actors, new_actors, goUsed, goHeld, comUsed, comOwner,
           comHeld, goBorrowed, pc, starting, si, snapshot, cur, panic,
           rootRefs, rootMutHeld, nOps, lifecycle, diedIdle, snapLive,
           activated>>

tvars == <<kind, size, filtering, res, gl_state, glCalls, glTextures,
           lastResult, results, nTexCalls, fname, files, resFile, apc>>

vars == <<wvars, tvars>>

Range(s) == {s[i] : i \in 1..Len(s)}

\* ------------------------------------------------------- strong references
\* Rc<RefCell<GameObject>> holders: the scene tree (root), World.golist, the
\* user, the `go` local of the running callback and the strong handles of the
\* entries still held by the snapshot iterator.
GoAlive(o) ==
    \/ o = Root
    \/ o \in Range(golist)
    \/ o \in goHeld
    \/ cur.go = o
    \/ \E i \in 1..Len(snapshot) : snapshot[i].go = o

\* Arc<Component> holders: the component list of a live object, the user, and
\* the `com` local of the running callback.
ComAlive(c) ==
    \/ c \in comHeld
    \/ (comOwner[c] # None /\ GoAlive(comOwner[c]))
    \/ cur.c = c

\* The object can be named by the caller: the root through World::root_mut,
\* a held Handle, or the `go` passed to the running callback.
GoReachable(o) == o = Root \/ o \in goHeld \/ cur.go = o

\* The (object, component) identity of an entry.
Pair(p) == <<p.go, p.c>>

\* ------------------------------------------------------------- lifecycle
\* What an Actor has observed: "none" -start-> "started" -update-> "started";
\* a second start or an update before the start leads to "broken".
Observe(l, call) ==
    IF call = "start"
    THEN (IF l = "none" THEN "started" ELSE "broken")
    ELSE (IF l = "started" THEN "started" ELSE "broken")

\* ----------------------------------------------------------------- watcher
\* world.rs:126-133
WatcherAdd(na, go, c, mid) ==
    IF IsActor(c)
    THEN Append(na, [go |-> go, c |-> c, mid |-> mid])
    ELSE na

\* world.rs:138-145: the closure given to retain, which keeps a pair when it
\* returns true.  `alive` is the set of components whose Weak upgrades.
WatcherRetain(p, c, alive) ==
    IF p.c \notin alive THEN TRUE ELSE p.c # c

\* world.rs:135-147
WatcherRemove(na, c, alive) ==
    IF IsActor(c)
    THEN SelectSeq(na, LAMBDA p : WatcherRetain(p, c, alive))
    ELSE na

AliveComs == {c \in Actors : ComAlive(c)}

\* --------------------------------------------------------------------- Init
\* world.rs:106-116
WorldInit ==
    /\ golist = <<>>
    /\ actors = <<>>
    /\ new_actors = <<>>
    /\ goUsed = {Root}
    /\ goHeld = {}
    /\ comUsed = {}
    /\ comOwner = [c \in Actors |-> None]
    /\ comHeld = {}
    /\ goBorrowed = FALSE
    /\ pc = "idle"
    /\ starting = <<>>
    /\ si = 1
    /\ snapshot = <<>>
    /\ cur = NoPair
    /\ panic = NoPanic
    /\ nOps = 0
    /\ lifecycle = [c \in Actors |-> "none"]
    /\ diedIdle = {}
    /\ snapLive = {}
    /\ activated = <<>>
    /\ rootRefs = 0
    /\ rootMutHeld = FALSE

\* Option::unwrap fails on the Weak of component c in the loop `at` ("start",
\* "update"), or the operation `at` ("reset", "new_game_object", "root",
\* "root_mut"), called by the callback of c, fails to borrow the root: the
\* panic unwinds out of the frame driver and the program is gone.  `live`:
\* c resolved when the snapshot was taken; `idle`: c died between two frames.
Panicked(at, c) ==
    /\ pc' = "panicked"
    /\ panic' = [at |-> at, c |-> c, live |-> c \in snapLive,
                 idle |-> c \in diedIdle]
    /\ golist' = <<>>
    /\ actors' = <<>>
    /\ new_actors' = <<>>
    /\ goUsed' = {Root}
    /\ goHeld' = {}
    /\ comUsed' = {}
    /\ comOwner' = [x \in Actors |-> None]
    /\ comHeld' = {}
    /\ goBorrowed' = FALSE
    /\ starting' = <<>>
    /\ si' = 1
    /\ snapshot' = <<>>
    /\ cur' = NoPair
    /\ nOps' = 0
    /\ lifecycle' = [x \in Actors |-> "none"]
    /\ diedIdle' = {}
    /\ snapLive' = {}
    /\ activated' = <<>>
    /\ rootRefs' = 0
    /\ rootMutHeld' = FALSE
    /\ UNCHANGED tvars

\* The game object and the component created next.
NextObject == Cardinality(goUsed)

NextComponent == Cardinality(comUsed) + 1

\* User code runs between frames and inside a start/update callback.
CallPoint == pc \in {"idle", "in_start", "in_update"}

\* History only: the components of the pairs of both lists whose last strong
\* reference is released by a user operation between two frames.
NoteDeaths ==
    diedIdle' = diedIdle \cup
        {c \in {p.c : p \in Range(actors \o new_actors)} :
            pc = "idle" /\ ComAlive(c) /\ ~ComAlive(c)'}

StepLocals ==
    <<pc, starting, si, snapshot, cur, goBorrowed, panic, snapLive,
      activated>>

\* The guards of the root that user code holds.
Guards == <<rootRefs, rootMutHeld>>

\* World::root and World::root_mut borrow the World for as long as their
\* guard lives: while user code holds one, it can call no method that takes
\* `&mut self` (step, reset, new_game_object, remove_game_object), and the
\* guard does not outlive the callback that was handed the World.
NoGuard == rootRefs = 0 /\ ~rootMutHeld

\* world.rs:292-294 and 298-300: the default start_rc and the default
\* update_rc, each on its own, hold go.borrow_mut() while start or update
\* runs; a method an Actor overrides is handed the Handle and holds the
\* borrow only if it takes it itself.
RootBorrowed ==
    /\ pc \in {"in_start", "in_update"}
    /\ cur.go = Root
    /\ goBorrowed

\* ---------------------------------------------------------- scene operations
\* world.rs:270-274.  The caller keeps the returned Handle or drops it.
\* main_tree.root() (world.rs:271) borrows the root, which fails while the
\* running callback holds the root mutably.
NewGameObject(keep) ==
    /\ CallPoint
    /\ nOps < MaxOps
    /\ NoGuard
    /\ IF RootBorrowed
       THEN Panicked("new_game_object", cur.c)
       ELSE /\ LET o == NextObject IN
                /\ golist' = Append(golist, o)
                /\ goUsed' = goUsed \cup {o}
                /\ goHeld' = IF keep THEN goHeld \cup {o} ELSE goHeld
            /\ UNCHANGED <<actors, new_actors, comUsed, comOwner, comHeld,
                           lifecycle, StepLocals, Guards, tvars>>
            /\ NoteDeaths
            /\ nOps' = nOps + 1

\* world.rs:276-278
RemoveGameObject(o) ==
    /\ CallPoint
    /\ nOps < MaxOps
    /\ NoGuard
    /\ GoReachable(o)
    /\ golist' = SelectSeq(golist, LAMBDA x : x # o)
    /\ UNCHANGED <<actors, new_actors, goUsed, goHeld, comUsed, comOwner,
                   comHeld, lifecycle, StepLocals, Guards, tvars>>
    /\ NoteDeaths
    /\ nOps' = nOps + 1

\* The user drops a Handle<GameObject>.
DropGameObjectHandle(o) ==
    /\ CallPoint
    /\ nOps < MaxOps
    /\ o \in goHeld
    /\ goHeld' = goHeld \ {o}
    /\ UNCHANGED <<golist, actors, new_actors, goUsed, comUsed, comOwner,
                   comHeld, lifecycle, StepLocals, Guards, tvars>>
    /\ NoteDeaths
    /\ nOps' = nOps + 1

\* An actor component is attached to an object: a new one, or one the user
\* still holds after it was removed.  The caller keeps an Arc to it or not.
\* The scene tree notifies the watcher (world.rs:124-133).
AddComponent(o, c, keep) ==
    /\ CallPoint
    /\ nOps < MaxOps
    /\ GoReachable(o)
    /\ o = Root => rootRefs = 0
    /\ \/ c = NextComponent
       \/ /\ c \in comHeld
          /\ comOwner[c] = None
    /\ comUsed' = comUsed \cup {c}
    /\ comOwner' = [comOwner EXCEPT ![c] = o]
    /\ comHeld' = IF keep THEN comHeld \cup {c} ELSE comHeld \ {c}
    /\ new_actors' = WatcherAdd(new_actors, o, c, pc # "idle")
    /\ UNCHANGED <<golist, actors, goUsed, goHeld, lifecycle, StepLocals,
                   Guards, tvars>>
    /\ NoteDeaths
    /\ nOps' = nOps + 1

\* A component is removed from its object; the caller holds its Arc during
\* the call and keeps or drops it afterwards.  The scene tree notifies the
\* watcher (world.rs:124-125 and 135-147).
RemoveComponent(c, keep) ==
    /\ CallPoint
    /\ nOps < MaxOps
    /\ comOwner[c] # None
    /\ GoReachable(comOwner[c])
    /\ comOwner[c] = Root => rootRefs = 0
    /\ new_actors' = WatcherRemove(new_actors, c, AliveComs)
    /\ comOwner' = [comOwner EXCEPT ![c] = None]
    /\ comHeld' = IF keep THEN comHeld \cup {c} ELSE comHeld \ {c}
    /\ UNCHANGED <<golist, actors, goUsed, goHeld, comUsed, lifecycle,
                   StepLocals, Guards, tvars>>
    /\ NoteDeaths
    /\ nOps' = nOps + 1

\* A plain component is attached to an object (here the root) and the scene
\* tree notifies the watcher (world.rs:124-133).
AddPlainComponent ==
    /\ CallPoint
    /\ rootRefs = 0
    /\ new_actors' = WatcherAdd(new_actors, Root, Plain, pc # "idle")
    /\ UNCHANGED <<golist, actors, goUsed, goHeld, comUsed, comOwner, comHeld,
                   nOps, lifecycle, diedIdle, StepLocals, Guards, tvars>>

\* The plain component is removed from the root and the scene tree notifies
\* the watcher (world.rs:124-125 and 135-147).
RemovePlainComponent ==
    /\ CallPoint
    /\ rootRefs = 0
    /\ new_actors' = WatcherRemove(new_actors, Plain, AliveComs)
    /\ UNCHANGED <<golist, actors, goUsed, goHeld, comUsed, comOwner, comHeld,
                   nOps, lifecycle, diedIdle, StepLocals, Guards, tvars>>

\* The user drops an Arc<Component>.
DropComponentHandle(c) ==
    /\ CallPoint
    /\ nOps < MaxOps
    /\ c \in comHeld
    /\ comHeld' = comHeld \ {c}
    /\ UNCHANGED <<golist, actors, new_actors, goUsed, goHeld, comUsed,
                   comOwner, lifecycle, StepLocals, Guards, tvars>>
    /\ NoteDeaths
    /\ nOps' = nOps + 1

\* GameObject::clear_components on the root (world.rs:251): the component
\* list of the object is emptied.
ClearComponents(owner, o) ==
    [c \in Actors |-> IF owner[c] = o THEN None ELSE owner[c]]

\* world.rs:247-252.  Both lists are cleared (248-249), then root_mut()
\* (251) borrows the root mutably, which fails while the running callback
\* holds the root.  The asset system is not modelled.
Reset ==
    /\ CallPoint
    /\ nOps < MaxOps
    /\ NoGuard
    /\ IF RootBorrowed
       THEN Panicked("reset", cur.c)
       ELSE /\ actors' = <<>>
            /\ golist' = <<>>
            /\ comOwner' = ClearComponents(comOwner, Root)
            /\ UNCHANGED <<new_actors, goUsed, goHeld, comUsed, comHeld,
                           lifecycle, StepLocals, Guards, tvars>>
            /\ NoteDeaths
            /\ nOps' = nOps + 1

\* The World and the scene but for the step and the guards.
SceneState ==
    <<golist, actors, new_actors, goUsed, goHeld, comUsed, comOwner, comHeld,
      nOps, lifecycle, diedIdle>>

\* world.rs:157-159: user code asks for the root, and keeps the Ref it is
\* handed or drops it at once.  RefCell::borrow panics while the root is
\* mutably borrowed: by the running callback or by a RefMut of user code.
WorldRoot(keep) ==
    /\ CallPoint
    /\ IF RootBorrowed \/ rootMutHeld
       THEN Panicked("root", cur.c)
       ELSE /\ keep => rootRefs < MaxGuards
            /\ rootRefs' = IF keep THEN rootRefs + 1 ELSE rootRefs
            /\ UNCHANGED <<SceneState, StepLocals, rootMutHeld, tvars>>

\* world.rs:161-163: user code asks for the root to change it, and keeps
\* the RefMut it is handed or drops it at once.  RefCell::borrow_mut panics
\* while the root is borrowed: by the running callback or by a guard of
\* user code.
WorldRootMut(keep) ==
    /\ CallPoint
    /\ IF RootBorrowed \/ rootRefs > 0 \/ rootMutHeld
       THEN Panicked("root_mut", cur.c)
       ELSE /\ rootMutHeld' = keep
            /\ UNCHANGED <<SceneState, StepLocals, rootRefs, tvars>>

\* User code drops a Ref<GameObject> of the root.
DropRootRef ==
    /\ CallPoint
    /\ rootRefs > 0
    /\ rootRefs' = rootRefs - 1
    /\ UNCHANGED <<SceneState, StepLocals, rootMutHeld, tvars>>

\* User code drops the RefMut<GameObject> of the root.
DropRootMut ==
    /\ CallPoint
    /\ rootMutHeld
    /\ rootMutHeld' = FALSE
    /\ UNCHANGED <<SceneState, StepLocals, rootRefs, tvars>>

\* ------------------------------------------------------------------ the step
\* world.rs:188-196 and 173-175: step begins (the resize events go to the
\* engine), active_starting_actors drains new_actors into `starting`.
StepBegin ==
    /\ pc = "idle"
    /\ NoGuard
    /\ starting' = new_actors
    /\ new_actors' = <<>>
    /\ si' = 1
    /\ pc' = "starting"
    /\ UNCHANGED <<golist, actors, goUsed, goHeld, comUsed, comOwner, comHeld,
                   goBorrowed, snapshot, cur, panic, nOps, lifecycle,
                   diedIdle, snapLive, activated, Guards, tvars>>

StartingBatch_Live == starting \o new_actors

\* world.rs:174-177: the batch the activation loop iterates.
StartingBatch == starting

\* world.rs:177-182: the next pair of the batch; both upgrades are unwrapped
\* and start_rc is called.  borrows: the start_rc of the Actor runs with
\* go.borrow_mut() held, as the default one does (292-294).
StartCall(borrows) ==
    /\ pc = "starting"
    /\ si <= Len(StartingBatch)
    /\ LET p == StartingBatch[si] IN
        IF ComAlive(p.c) /\ GoAlive(p.go)
        THEN /\ cur' = p
             /\ goBorrowed' = borrows
             /\ lifecycle' = [lifecycle EXCEPT ![p.c] = Observe(@, "start")]
             /\ pc' = "in_start"
             /\ UNCHANGED <<golist, actors, new_actors, goUsed, goHeld,
                            comUsed, comOwner, comHeld, starting, si,
                            snapshot, panic, nOps, diedIdle, snapLive,
                            activated, Guards, tvars>>
        ELSE Panicked("start", p.c)

\* start_rc returns (world.rs:182-183); `com` and `go` are dropped.
StartReturn ==
    /\ pc = "in_start"
    /\ NoGuard
    /\ cur' = NoPair
    /\ goBorrowed' = FALSE
    /\ si' = si + 1
    /\ pc' = "starting"
    /\ UNCHANGED <<golist, actors, new_actors, goUsed, goHeld, comUsed,
                   comOwner, comHeld, starting, snapshot, panic, nOps,
                   lifecycle, diedIdle, snapLive, activated, Guards, tvars>>

\* world.rs:202-206: the pairs of `list` whose object upgrades, in order.
Snapshot(list) == SelectSeq(list, LAMBDA p : GoAlive(p.go))

\* world.rs:185 and 198-207: the batch is appended to actors and the
\* snapshot of actors is taken.
ActivationDone ==
    /\ pc = "starting"
    /\ si > Len(StartingBatch)
    /\ actors' = actors \o starting
    /\ starting' = <<>>
    /\ si' = 1
    /\ snapshot' = Snapshot(actors \o starting)
    /\ snapLive' = {p.c : p \in {q \in Range(actors \o starting) : ComAlive(q.c)}}
    /\ activated' = actors \o starting
    /\ pc' = "updating"
    /\ UNCHANGED <<golist, new_actors, goUsed, goHeld, comUsed, comOwner,
                   comHeld, goBorrowed, cur, panic, nOps, lifecycle, diedIdle,
                   Guards, tvars>>

\* world.rs:209-213: the next entry of the snapshot; the component upgrade is
\* unwrapped and update_rc is called.  borrows: the update_rc of the Actor
\* runs with go.borrow_mut() held, as the default one does (298-300).
UpdateCall(borrows) ==
    /\ pc = "updating"
    /\ snapshot # <<>>
    /\ LET p == Head(snapshot) IN
        IF ComAlive(p.c)
        THEN /\ cur' = p
             /\ goBorrowed' = borrows
             /\ snapshot' = Tail(snapshot)
             /\ lifecycle' = [lifecycle EXCEPT ![p.c] = Observe(@, "update")]
             /\ pc' = "in_update"
             /\ UNCHANGED <<golist, actors, new_actors, goUsed, goHeld,
                            comUsed, comOwner, comHeld, starting, si, panic,
                            nOps, diedIdle, snapLive,
                            activated, Guards, tvars>>
        ELSE Panicked("update", p.c)

\* update_rc returns (world.rs:213-214); `com` and `go` are dropped.
UpdateReturn ==
    /\ pc = "in_update"
    /\ NoGuard
    /\ cur' = NoPair
    /\ goBorrowed' = FALSE
    /\ pc' = "updating"
    /\ UNCHANGED <<golist, actors, new_actors, goUsed, goHeld, comUsed,
                   comOwner, comHeld, starting, si, snapshot, panic, nOps,
                   lifecycle, diedIdle, snapLive, activated, Guards, tvars>>

\* History only: the step is over, so its pairs are no longer "added after
\* the running step had begun".
Age(list) == [i \in 1..Len(list) |-> [list[i] EXCEPT !.mid = FALSE]]

Prune_ObjectToo(list) ==
    SelectSeq(list, LAMBDA p : ComAlive(p.c) /\ GoAlive(p.go))

\* world.rs:218: retain the pairs whose component still upgrades.
Prune(list) == SelectSeq(list, LAMBDA p : ComAlive(p.c))

\* world.rs:216-237: the step ends (the fps counter and the stats label are
\* not modelled).
StepEnd ==
    /\ pc = "updating"
    /\ snapshot = <<>>
    /\ actors' = Prune(actors)
    /\ pc' = "idle"
    /\ snapLive' = {}
    /\ activated' = <<>>
    /\ diedIdle' = {}
    /\ new_actors' = Age(new_actors)
    /\ UNCHANGED <<golist, goUsed, goHeld, comUsed, comOwner, comHeld,
                   goBorrowed, starting, si, snapshot, cur, panic, nOps,
                   lifecycle, Guards, tvars>>

\* ------------------------------------------------------------------ Texture
Kinds == {"Image", "CubeMap", "RenderTexture"}

Filterings == {"Nearest", "Linear"}

\* The sizes a render texture is created with; the second does not fit u16.
Sizes == {<<256, 256>>, <<65792, 1>>}

\* texture.rs:19-21: the number of Resources behind each kind.
NRes(k) == IF k = "Image" THEN 1 ELSE IF k = "CubeMap" THEN 6 ELSE 0

\* img.width(), img.height() of the decoded image of resource i.
ImageDims(i) == <<64, 32>>

\* `as u16`
U16(x) == x % 65536

\* Resource::try_into / Resource::try_borrow: the value when the resource is
\* ready, an error while it is pending or after it failed.
TryBorrow(r) == r = "ready"

\* A call received by the graphics backend.
Gl(op) ==
    [op |-> op, tex |-> None, unit |-> None, target |-> "", param |-> "",
     val |-> "", w |-> 0, h |-> 0, data |-> None]

GlCreateTexture(id) == [Gl("create_texture") EXCEPT !.tex = id]

GlActiveTexture(unit) == [Gl("active_texture") EXCEPT !.unit = unit]

GlBindTexture(id) == [Gl("bind_texture") EXCEPT !.tex = id]

GlBindTextureCube(id) == [Gl("bind_texture_cube") EXCEPT !.tex = id]

\* data: the resource whose pixels are uploaded, 0 for the empty slice
GlTexImage2d(target, dims, data) ==
    [Gl("tex_image2d") EXCEPT !.target = target, !.w = U16(dims[1]),
                              !.h = U16(dims[2]), !.data = data]

GlTexParameteri(glkind, param, val) ==
    [Gl("tex_parameteri") EXCEPT !.target = glkind, !.param = param, !.val = val]

\* texture.rs:159-167
BindToFramebuffer(id) ==
    [Gl("framebuffer_texture2d") EXCEPT !.target = "Texture2d",
                                        !.param = "ColorAttachment0", !.tex = id]

UnbindTexture_Always2d(k) == Gl("unbind_texture")

\* texture.rs:169-178
UnbindTexture(k) ==
    IF k = "CubeMap" THEN Gl("unbind_texture_cube") ELSE Gl("unbind_texture")

\* texture.rs:210-217
BindPoints ==
    <<"TextureCubeMapPositiveX", "TextureCubeMapNegativeX",
      "TextureCubeMapPositiveY", "TextureCubeMapNegativeY",
      "TextureCubeMapPositiveZ", "TextureCubeMapNegativeZ">>

\* texture.rs:262-265
FilterValue(f) == IF f = "Nearest" THEN "Nearest" ELSE "Linear"

Configure_NoFramebuffer(k, f, id) ==
    LET glkind == IF k = "CubeMap" THEN "TextureCubeMap" ELSE "Texture2d" IN
       <<GlTexParameteri(glkind, "TextureMagFilter", FilterValue(f)),
         GlTexParameteri(glkind, "TextureMinFilter", FilterValue(f)),
         GlTexParameteri(glkind, "TextureWrapS", "ClampToEdge"),
         GlTexParameteri(glkind, "TextureWrapT", "ClampToEdge")>>
    \o (IF k = "CubeMap"
        THEN <<GlTexParameteri(glkind, "TextureWrapR", "ClampToEdge")>>
        ELSE <<>>)
    \o <<UnbindTexture(k)>>

\* texture.rs:267-292: the parameters, the framebuffer attachment and the
\* unbind that follow the upload.
Configure(k, f, id) ==
    LET glkind == IF k = "CubeMap" THEN "TextureCubeMap" ELSE "Texture2d" IN
       <<GlTexParameteri(glkind, "TextureMagFilter", FilterValue(f)),
         GlTexParameteri(glkind, "TextureMinFilter", FilterValue(f)),
         GlTexParameteri(glkind, "TextureWrapS", "ClampToEdge"),
         GlTexParameteri(glkind, "TextureWrapT", "ClampToEdge")>>
    \o (IF k = "CubeMap"
        THEN <<GlTexParameteri(glkind, "TextureWrapR", "ClampToEdge")>>
        ELSE <<>>)
    \o (IF k = "RenderTexture" THEN <<BindToFramebuffer(id)>> ELSE <<>>)
    \o <<UnbindTexture(k)>>

\* texture.rs:188-206, 207-242, 244-259: the creation and the upload.
Upload(k, sz, id) ==
    IF k = "Image"
    THEN <<GlCreateTexture(id), GlActiveTexture(0), GlBindTexture(id),
           GlTexImage2d("Texture2d", ImageDims(1), 1)>>
    ELSE IF k = "CubeMap"
    THEN <<GlCreateTexture(id), GlActiveTexture(0), GlBindTextureCube(id)>>
         \o [i \in 1..6 |-> GlTexImage2d(BindPoints[i], ImageDims(i), i)]
    ELSE <<GlCreateTexture(id), GlActiveTexture(0), GlBindTexture(id),
           GlTexImage2d("Texture2d", sz, 0)>>

NotReadyCalls_CreateFirst(k, id) == <<GlCreateTexture(id), GlActiveTexture(0)>>

\* texture.rs:189 and 219-221: the resources are read, with `?`, before the
\* first backend call, so a failed read has issued no call.
NotReadyCalls(k, id) == <<>>

\* texture.rs:180-295.  r: the states of the resources; id: the texture the
\* backend creates next.  The result: Ok(TextureGLState) or Err, with the
\* backend calls made on the way.
TextureBindBuffer(k, f, r, sz, id) ==
    IF \E i \in 1..NRes(k) : ~TryBorrow(r[i])
    THEN [ok |-> FALSE, calls |-> NotReadyCalls(k, id), tex |-> None]
    ELSE [ok |-> TRUE, calls |-> Upload(k, sz, id) \o Configure(k, f, id),
          tex |-> id]

Compiled_Never(st) == FALSE

\* texture.rs:147: self.gl_state.borrow().is_some()
Compiled(st) == st # None

PrepareResult_KeepFailed ==
    IF Compiled(gl_state)
    THEN [ok |-> TRUE, calls |-> <<>>, state |-> gl_state]
    ELSE LET b == TextureBindBuffer(kind, filtering, res, size, glTextures + 1) IN
         [ok |-> b.ok, calls |-> b.calls, state |-> glTextures + 1]

\* texture.rs:146-156: the result of prepare, the calls it makes and the
\* gl_state it leaves.
PrepareResult ==
    IF Compiled(gl_state)
    THEN [ok |-> TRUE, calls |-> <<>>, state |-> gl_state]
    ELSE LET b == TextureBindBuffer(kind, filtering, res, size, glTextures + 1) IN
         IF b.ok
         THEN [ok |-> TRUE, calls |-> b.calls, state |-> b.tex]
         ELSE [ok |-> FALSE, calls |-> b.calls, state |-> gl_state]

Creations(calls) == Len(SelectSeq(calls, LAMBDA x : x.op = "create_texture"))

\* texture.rs:42-60 and 121-129: a Texture as its constructors leave it; an
\* image Resource is pending (being loaded) or ready (made from an image).
TextureInit ==
    /\ kind \in Kinds
    /\ size \in (IF kind = "RenderTexture" THEN Sizes ELSE {<<0, 0>>})
    /\ filtering \in Filterings
    /\ res \in [1..NRes(kind) -> {"pending", "ready"}]
    /\ gl_state = None
    /\ glCalls = <<>>
    /\ glTextures = 0
    /\ lastResult = "none"
    /\ results = <<>>
    /\ nTexCalls = 0
    /\ fname = <<>>
    /\ files = <<>>
    /\ resFile = [i \in 1..Len(res) |-> <<>>]
    /\ apc = "loaded"

\* The texture of the World's specification: a render texture nobody binds.
TextureUnused ==
    /\ kind = "RenderTexture"
    /\ size = <<256, 256>>
    /\ filtering = "Linear"
    /\ res = <<>>
    /\ gl_state = None
    /\ glCalls = <<>>
    /\ glTextures = 0
    /\ lastResult = "none"
    /\ results = <<>>
    /\ nTexCalls = 0
    /\ fname = <<>>
    /\ files = <<>>
    /\ resFile = [i \in 1..Len(res) |-> <<>>]
    /\ apc = "loaded"

\* The file fetch of a pending resource resolves.
ResourceLoaded(i) ==
    /\ i \in 1..Len(res)
    /\ res[i] = "pending"
    /\ res' = [res EXCEPT ![i] = "ready"]
    /\ UNCHANGED <<kind, size, filtering, gl_state, glCalls, glTextures,
                   lastResult, results, nTexCalls, fname, files, resFile, apc,
                   wvars>>

\* The file fetch or the decoding of a pending resource fails.
ResourceFailed(i) ==
    /\ i \in 1..Len(res)
    /\ res[i] = "pending"
    /\ res' = [res EXCEPT ![i] = "failed"]
    /\ UNCHANGED <<kind, size, filtering, gl_state, glCalls, glTextures,
                   lastResult, results, nTexCalls, fname, files, resFile, apc,
                   wvars>>

\* texture.rs:146-156
Prepare ==
    /\ nTexCalls < MaxTexCalls
    /\ LET r == PrepareResult IN
        /\ glCalls' = glCalls \o r.calls
        /\ glTextures' = glTextures + Creations(r.calls)
        /\ gl_state' = r.state
        /\ lastResult' = IF r.ok THEN "Ok" ELSE "Err"
        /\ results' = Append(results, IF r.ok THEN "Ok" ELSE "Err")
    /\ nTexCalls' = nTexCalls + 1
    /\ UNCHANGED <<kind, size, filtering, res, fname, files, resFile, apc,
                   wvars>>

\* texture.rs:131-144
Bind(unit) ==
    /\ nTexCalls < MaxTexCalls
    /\ LET r == PrepareResult IN
        /\ glCalls' = glCalls \o r.calls \o
              (IF r.ok
               THEN <<GlActiveTexture(unit),
                      IF kind = "CubeMap" THEN GlBindTextureCube(r.state)
                                          ELSE GlBindTexture(r.state)>>
               ELSE <<>>)
        /\ glTextures' = glTextures + Creations(r.calls)
        /\ gl_state' = r.state
        /\ lastResult' = IF r.ok THEN "Ok" ELSE "Err"
        /\ results' = Append(results, IF r.ok THEN "Ok" ELSE "Err")
    /\ nTexCalls' = nTexCalls + 1
    /\ UNCHANGED <<kind, size, filtering, res, fname, files, resFile, apc,
                   wvars>>

\* ------------------------------------------------------------------- gather
\* Strings are sequences of one-character strings.
Upper ==
    <<"A", "B", "C", "D", "E", "F", "G", "H", "I", "J", "K", "L", "M",
      "N", "O", "P", "Q", "R", "S", "T", "U", "V", "W", "X", "Y", "Z">>

Lower ==
    <<"a", "b", "c", "d", "e", "f", "g", "h", "i", "j", "k", "l", "m",
      "n", "o", "p", "q", "r", "s", "t", "u", "v", "w", "x", "y", "z">>

\* str::to_lowercase, on ASCII text
ToLowercase(s) ==
    [i \in 1..Len(s) |->
        IF \E k \in 1..26 : Upper[k] = s[i]
        THEN Lower[CHOOSE k \in 1..26 : Upper[k] = s[i]]
        ELSE s[i]]

\* str::ends_with
EndsWith(s, t) ==
    /\ Len(t) <= Len(s)
    /\ SubSeq(s, Len(s) - Len(t) + 1, Len(s)) = t

\* The position of the last ch of s, 0 when there is none.
LastIndexOf(s, ch) ==
    IF \E i \in 1..Len(s) : s[i] = ch
    THEN CHOOSE i \in 1..Len(s) :
            s[i] = ch /\ \A j \in (i + 1)..Len(s) : s[j] # ch
    ELSE 0

\* Option<&str>
Some(v) == [some |-> TRUE, v |-> v]

Nothing == [some |-> FALSE, v |-> <<>>]

\* std::path::Path::has_root
HasRoot(path) == path # <<>> /\ path[1] = "/"

\* std::path::Components: the path is cut at its separators; where each
\* maximal run of other characters starts.
SegmentStarts(path) ==
    {i \in 1..Len(path) : path[i] # "/" /\ (i = 1 \/ path[i - 1] = "/")}

\* Where the run of characters that starts at i ends.
SegmentEnd(path, i) ==
    CHOOSE j \in i..Len(path) :
        /\ \A k \in i..j : path[k] # "/"
        /\ (j = Len(path) \/ path[j + 1] = "/")

Segment(path, i) == SubSeq(path, i, SegmentEnd(path, i))

\* std::path::Components: the components after the root, by their starts.
\* Empty runs are no components, and `.` is one only at the front of a
\* path without root.
PathComponents(path) ==
    {i \in SegmentStarts(path) : Segment(path, i) # <<".">> \/ i = 1}

\* Components::next_back: the start of the last component, 0 when the path
\* has none after its root.
LastComponent(path) ==
    LET starts == PathComponents(path) IN
    IF starts = {} THEN 0
    ELSE CHOOSE i \in starts : \A j \in starts : j <= i

\* Path::file_name: the last component when it is a normal one: none for a
\* path without component, for the root, for `..` and for `.`.
FileName(path) ==
    LET last == LastComponent(path)
        name == Segment(path, last)
    IN  IF last = 0 \/ name \in {<<".">>, <<".", ".">>}
        THEN Nothing
        ELSE Some(name)

\* Path::extension: what follows the last dot of the file name; none without
\* a dot, and none when the only dot is the first character.
Extension(path) ==
    LET name == FileName(path)
        dot == LastIndexOf(name.v, ".")
    IN  IF ~name.some \/ dot <= 1
        THEN Nothing
        ELSE Some(SubSeq(name.v, dot + 1, Len(name.v)))

\* Path::file_stem: the file name up to its last dot; the whole file name
\* when Path::extension is none.
FileStem(path) ==
    LET name == FileName(path)
        dot == LastIndexOf(name.v, ".")
    IN  IF ~name.some THEN Nothing
        ELSE IF dot <= 1 THEN name
        ELSE Some(SubSeq(name.v, 1, dot - 1))

\* Path::parent: the text of the path up to the end of the component before
\* the last one; the root, or the empty path, when the last component is the
\* only one; none when the path has no component after its root.
Parent(path) ==
    LET last == LastComponent(path)
        before == {i \in PathComponents(path) : i < last}
        prev == CHOOSE i \in before : \A j \in before : j <= i
    IN  IF last = 0 THEN Nothing
        ELSE IF before # {}
        THEN Some(SubSeq(path, 1, SegmentEnd(path, prev)))
        ELSE IF HasRoot(path) THEN Some(<<"/">>)
        ELSE Some(<<>>)

\* texture.rs:97
Tag == <<"_", "c", "u", "b", "e", "m", "a", "p">>

\* texture.rs:102-107: the face suffixes, in the order of the requests
FaceSuffixes ==
    <<<<"_", "r", "i", "g", "h", "t">>,
      <<"_", "l", "e", "f", "t">>,
      <<"_", "t", "o", "p">>,
      <<"_", "b", "o", "t", "t", "o", "m">>,
      <<"_", "f", "r", "o", "n", "t">>,
      <<"_", "b", "a", "c", "k">>>>

\* texture.rs:89: parent.map_or("", |p| p + "/")
ParentPrefix(path) ==
    LET parent == Parent(path) IN
    IF parent.some THEN parent.v \o <<"/">> ELSE <<>>

Gather_AnyFileName(name) ==
    IF FileName(name).some /\ EndsWith(ToLowercase(FileStem(name).v), Tag)
    THEN LET stem == FileStem(name).v
             f == SubSeq(stem, 1, Len(stem) - Len(Tag))
         IN  [i \in 1..6 |-> ParentPrefix(name) \o f \o FaceSuffixes[i]
                                \o <<".">> \o Extension(name).v]
    ELSE <<name>>

\* texture.rs:84-112: the names of the files gather requests, in order.
Gather(name) ==
    LET ext == Extension(name)
        stem == FileStem(name)
    IN  IF ~ext.some \/ ~stem.some
        THEN <<name>>
        ELSE IF EndsWith(ToLowercase(stem.v), Tag)
        THEN LET f == SubSeq(stem.v, 1, Len(stem.v) - Len(Tag))
                 parent == ParentPrefix(name)
             IN  [i \in 1..6 |-> parent \o f \o FaceSuffixes[i]
                                    \o <<".">> \o ext.v]
        ELSE <<name>>

\* The asset names of the model: directory, base, ending of the stem and
\* extension, each from a few cases.
RECURSIVE Dir(_)
Dir(n) == IF n = 0 THEN <<>> ELSE <<"a", "/">> \o Dir(n - 1)

Dirs == {Dir(n) : n \in 0..MaxDepth} \cup {<<"/">> \o Dir(n) : n \in 0..MaxDepth}

Bases == {<<>>, <<"s", "k", "y">>}

Endings ==
    {<<>>, Tag, <<"_", "C", "u", "b", "e", "M", "a", "p">>, Tag \o <<"s">>}

Exts == {<<>>, <<".">>, <<".", "p", "n", "g">>, <<".", "a", ".", "p", "n", "g">>}

\* Names with `.` components: in front, inside and at the end.
DotNames ==
    {d \o <<"s", "k", "y">> \o e \o <<".", "p", "n", "g">> \o t :
        d \in {<<>>, <<".", "/">>, <<"/", ".", "/">>, <<"a", "/", ".", "/">>},
        e \in {<<>>, Tag},
        t \in {<<>>, <<"/", ".">>, <<"/", ".", "/">>}}

Names ==
    {d \o b \o e \o x : d \in Dirs, b \in Bases, e \in Endings, x \in Exts}
        \cup DotNames

\* texture.rs:63-82: the kind of asset load builds from the files.
LoadKind(fs) == IF Len(fs) = 6 THEN "CubeMap" ELSE "Image"

LoadFiles_Reversed(fs) ==
    [i \in 1..NRes(LoadKind(fs)) |-> fs[Len(fs) + 1 - i]]

\* texture.rs:68-80: files.remove(0), six times or once: resource i is
\* loaded from file i.
LoadFiles(fs) == [i \in 1..NRes(LoadKind(fs)) |-> fs[i]]

\* A Texture asset is asked for by name (AssetSystem, outside src/).
AssetInit ==
    /\ fname \in Names
    /\ files = <<>>
    /\ resFile = <<>>
    /\ apc = "named"
    /\ kind = "Image"
    /\ size = <<0, 0>>
    /\ filtering = "Linear"
    /\ res = <<>>
    /\ gl_state = None
    /\ glCalls = <<>>
    /\ glTextures = 0
    /\ lastResult = "none"
    /\ results = <<>>
    /\ nTexCalls = 0

\* texture.rs:84-112
GatherFiles ==
    /\ apc = "named"
    /\ files' = Gather(fname)
    /\ apc' = "gathered"
    /\ UNCHANGED <<kind, size, filtering, res, gl_state, glCalls, glTextures,
                   lastResult, results, nTexCalls, fname, resFile, wvars>>

\* texture.rs:63-82 and 45-59: load starts the loading of each file, and
\* new_from_resource builds the Texture around the resources.
Load ==
    /\ apc = "gathered"
    /\ kind' = LoadKind(files)
    /\ resFile' = LoadFiles(files)
    /\ res' = [i \in 1..NRes(LoadKind(files)) |-> "pending"]
    /\ filtering' = "Linear"
    /\ gl_state' = None
    /\ apc' = "loaded"
    /\ UNCHANGED <<size, glCalls, glTextures, lastResult, results, nTexCalls,
                   fname, files, wvars>>

\* ------------------------------------------------------------ specifications
Init == WorldInit /\ TextureUnused

Next ==
    \/ \E keep \in BOOLEAN : NewGameObject(keep)
    \/ \E o \in goUsed \ {Root} : RemoveGameObject(o)
    \/ \E o \in goHeld : DropGameObjectHandle(o)
    \/ \E o \in goUsed, c \in comHeld \cup {NextComponent},
          keep \in BOOLEAN :
          AddComponent(o, c, keep)
    \/ \E c \in comUsed, keep \in BOOLEAN : RemoveComponent(c, keep)
    \/ \E c \in comHeld : DropComponentHandle(c)
    \/ AddPlainComponent
    \/ RemovePlainComponent
    \/ Reset
    \/ \E keep \in BOOLEAN : WorldRoot(keep)
    \/ \E keep \in BOOLEAN : WorldRootMut(keep)
    \/ DropRootRef
    \/ DropRootMut
    \/ StepBegin
    \/ \E borrows \in BOOLEAN : StartCall(borrows)
    \/ StartReturn
    \/ ActivationDone
    \/ \E borrows \in BOOLEAN : UpdateCall(borrows)
    \/ UpdateReturn
    \/ StepEnd

\* The World: the frame driver and the user's scene operations.
Spec == Init /\ [][Next]_vars

TexInit == WorldInit /\ TextureInit

TexNext ==
    \/ \E i \in 1..6 : ResourceLoaded(i)
    \/ \E i \in 1..6 : ResourceFailed(i)
    \/ Prepare
    \/ \E unit \in 0..MaxUnit : Bind(unit)

\* One Texture, its resources and its callers.
TexSpec == TexInit /\ [][TexNext]_vars

AssetSpecInit == WorldInit /\ AssetInit

AssetNext ==
    \/ GatherFiles
    \/ Load
    \/ \E i \in 1..6 : apc = "loaded" /\ ResourceLoaded(i)
    \/ \E i \in 1..6 : apc = "loaded" /\ ResourceFailed(i)
    \/ apc = "loaded" /\ Prepare
    \/ \E unit \in 0..MaxUnit : apc = "loaded" /\ Bind(unit)

\* A Texture asset from its name to its use: gather, load, the loading of
\* the resources, prepare and bind.
AssetSpec == AssetSpecInit /\ [][AssetNext]_vars

\* --------------------------------------------------------------- properties
Entries(list) == 1..Len(list)

\* The pairs of `list` that come from an Add event delivered during the
\* running step.
MidFrame(list) == {i \in Entries(list) : list[i].mid}

CallsOf(op) == SelectSeq(glCalls, LAMBDA x : x.op = op)

Uploads(k) == IF k = "CubeMap" THEN 6 ELSE 1

SomeNotReady == \E i \in 1..Len(res) : res[i] # "ready"

\* C1: every actor component observes `start` exactly once and then only
\* `update` calls: no component has observed a second `start`, or an `update`
\* before its `start`.
C1_StartOnceThenUpdates == \A c \in Actors : lifecycle[c] # "broken"

\* C2: no (object, component) pair is in new_actors and in actors at the
\* same time.
C2_ListsDisjoint ==
    \A i \in Entries(new_actors), j \in Entries(actors) :
        Pair(new_actors[i]) # Pair(actors[j])

\* C3: when the last strong reference of a listed component is released
\* between two frames, the next step does not abort on it, does not update
\* it, and ends with its pair absent from actors.
C3_DroppedBetweenFrames ==
    /\ [](~(pc = "panicked" /\ panic.idle))
    /\ [](pc = "in_update" => cur.c \notin diedIdle)
    /\ [][StepEnd => \A i \in Entries(actors') : actors'[i].c \notin diedIdle]_vars

\* C4: the activation pass never aborts on a drained pair whose object or
\* component no longer resolves, and it calls `start` only with a pair whose
\* two references resolve.
C4_DeadPendingSkipped ==
    /\ ~(pc = "panicked" /\ panic.at = "start")
    /\ (pc = "in_start" => ComAlive(cur.c) /\ GoAlive(cur.go))

\* C5: the update pass never aborts on a component that resolved when the
\* snapshot was taken, whatever the updates of the pass do to the scene, and
\* it updates no actor added during the pass.
C5_UpdatePassSafe ==
    /\ ~(pc = "panicked" /\ panic.at = "update" /\ panic.live)
    /\ (pc = "in_update" => ~cur.mid)

\* C6: the pair that an Add event delivered while a step runs (during its
\* activation pass or its update pass) registers waits in new_actors: it is
\* not in the batch being started, not started, not in actors and not updated
\* before the step has ended.  The component is started in that step only
\* through a pair registered before the step began.
C6_StartedNextFrame ==
    /\ MidFrame(starting) = {}
    /\ MidFrame(actors) = {}
    /\ MidFrame(snapshot) = {}
    /\ ~cur.mid
    /\ (pc = "idle" => MidFrame(new_actors) = {})

\* C6 as stated, of the actor: once an Add event of a component has been
\* delivered while a step runs, that step does not start the component.
C6_ActorStartedNextFrame ==
    [][pc = "starting" /\ pc' = "in_start" =>
          \A i \in MidFrame(new_actors) : new_actors[i].c # cur'.c]_vars

\* C6 witness: a step is about to end with a never started actor waiting in
\* new_actors, added while the step ran.
C6_Witness ==
    /\ pc = "updating"
    /\ snapshot = <<>>
    /\ actors # <<>>
    /\ \E i \in MidFrame(new_actors) : lifecycle[new_actors[i].c] = "none"

\* C7: a Remove event of an actor component leaves in new_actors, in their
\* order, exactly the pairs whose component is alive and is not the removed
\* one.
C7_RemoveDropsDeadAndEqual ==
    [][\A c \in Actors, keep \in BOOLEAN :
         RemoveComponent(c, keep) =>
            new_actors' = SelectSeq(new_actors,
                              LAMBDA p : p.c \in AliveComs /\ p.c # c)]_vars

\* C8: reset leaves actors, new_actors and the object list empty, so that
\* the step after it has no actor of before the reset to start or update.
C8_ResetClearsBothLists ==
    [][Reset => actors' = <<>> /\ new_actors' = <<>> /\ golist' = <<>>]_vars

\* C9: whatever the number of prepare/bind calls, the backend has created
\* and uploaded one texture if the Texture is compiled and none otherwise, a
\* successful call leaves it compiled, and every bind names the texture of
\* that one compilation.
C9_CompiledOnce ==
    /\ Creations(glCalls) = (IF gl_state = None THEN 0 ELSE 1)
    /\ glTextures = Creations(glCalls)
    /\ Len(CallsOf("tex_image2d")) = (IF gl_state = None THEN 0 ELSE Uploads(kind))
    /\ (lastResult = "Ok" => gl_state # None)
    /\ \A i \in Entries(glCalls) :
          glCalls[i].op \in {"create_texture", "bind_texture", "bind_texture_cube"}
              => glCalls[i].tex = gl_state

\* C9 witness: three calls on a cube map with ready faces, bound twice or
\* more after its only compilation.
C9_Witness ==
    /\ kind = "CubeMap"
    /\ ~SomeNotReady
    /\ nTexCalls = 3
    /\ Creations(glCalls) = 1
    /\ Len(CallsOf("bind_texture_cube")) >= 3

\* C10: while a backing resource is pending or failed, every prepare/bind
\* has returned an error and the backend has received no call at all.
C10_NotReadyNoBackendCall ==
    SomeNotReady =>
        /\ glCalls = <<>>
        /\ gl_state = None
        /\ lastResult \in {"none", "Err"}

\* C10 witness: a cube map with a ready face and a failed one has been bound
\* or prepared twice, in vain.
C10_Witness ==
    /\ kind = "CubeMap"
    /\ \E i \in 1..6 : res[i] = "ready"
    /\ \E i \in 1..6 : res[i] = "failed"
    /\ nTexCalls >= 2
    /\ lastResult = "Err"

\* C11: a failed prepare/bind stores no compiled state and leaves no backend
\* object or call behind, however many attempts fail; the first call made
\* with all resources ready succeeds and performs the only compilation.
C11_NoPartialCompile ==
    /\ []((\A i \in Entries(results) : results[i] = "Err") =>
             gl_state = None /\ glTextures = 0 /\ glCalls = <<>>)
    /\ [](\A i \in Entries(results) :
             results[i] = "Ok" =>
                /\ gl_state = 1
                /\ glTextures = 1
                /\ \A j \in i..Len(results) : results[j] = "Ok")
    /\ [][(results' # results /\ ~SomeNotReady) =>
             /\ results' = Append(results, "Ok")
             /\ gl_state' = 1
             /\ Creations(glCalls') = 1]_vars

\* C11 witness: two attempts failed, the resources became ready, and the
\* third attempt compiled the texture.
C11_Witness ==
    /\ results = <<"Err", "Err", "Ok">>
    /\ gl_state # None
    /\ Creations(glCalls) = 1

\* What C12 says of a render texture apart from the upload: every
\* prepare/bind call succeeds, and once one was made the texture is compiled
\* and attached, once, as color attachment 0 of the framebuffer.
RenderTargetAttached ==
    /\ \A i \in Entries(results) : results[i] = "Ok"
    /\ results # <<>> =>
          /\ gl_state # None
          /\ CallsOf("framebuffer_texture2d") = <<BindToFramebuffer(gl_state)>>

\* C12 as stated: a render texture of any size always prepares, ends attached
\* as color attachment 0, and the backend receives no upload (tex_image2d)
\* call.
C12_NoUploadCall ==
    kind = "RenderTexture" =>
        /\ RenderTargetAttached
        /\ CallsOf("tex_image2d") = <<>>

\* C12 amended: a render texture of any size always prepares and ends
\* attached as color attachment 0; the backend receives one tex_image2d call
\* on the 2D target, which carries no pixel data (the empty slice).
C12_RenderTarget ==
    kind = "RenderTexture" =>
        /\ RenderTargetAttached
        /\ results # <<>> =>
              /\ Len(CallsOf("tex_image2d")) = 1
              /\ CallsOf("tex_image2d")[1].target = "Texture2d"
              /\ CallsOf("tex_image2d")[1].data = 0

\* C12 witness: a render texture wider than 65535 has been prepared or bound
\* and is compiled.
C12_Witness ==
    /\ kind = "RenderTexture"
    /\ size = <<65792, 1>>
    /\ results # <<>>
    /\ gl_state # None
    /\ Len(CallsOf("framebuffer_texture2d")) = 1

\* The name has an extension and its stem ends, whatever the case of the
\* letters, with `_cubemap`.
CubeMapName(name) ==
    /\ Extension(name).some
    /\ EndsWith(ToLowercase(FileStem(name).v), Tag)

\* The parent directory of the name, written so that a file name can follow
\* it: nothing when the name has no directory part.
DirectoryPart(name) ==
    LET dir == Parent(name).v IN
    IF dir = <<>> \/ dir = <<"/">> THEN dir ELSE dir \o <<"/">>

\* The six face files of a cube-map name as the specification gives them:
\* the directory part as written, the stem without the suffix, the face and
\* the extension.
FaceFiles(name) ==
    LET stem == FileStem(name).v
        f == SubSeq(stem, 1, Len(stem) - Len(Tag))
    IN  [i \in 1..6 |-> DirectoryPart(name) \o f \o FaceSuffixes[i]
                           \o <<".">> \o Extension(name).v]

\* C13: for a name with an extension whose stem ends with `_cubemap`, gather
\* requests the six face files, in the order right, left, top, bottom,
\* front, back, in the directory of the name and with nothing prepended when
\* the name has no directory part.
C13_CubeMapFiles ==
    (apc # "named" /\ CubeMapName(fname)) => files = FaceFiles(fname)

\* C14: for a name whose stem does not end with `_cubemap`, or that has no
\* extension or stem, gather requests one file, the name unchanged.
C14_SingleFile ==
    (apc # "named" /\ ~CubeMapName(fname)) => files = <<fname>>

\* C14 witness: gather has answered a name without extension that ends with
\* `_cubemap` with that one name, and load has built an image of it.
C14_Witness ==
    /\ apc = "loaded"
    /\ EndsWith(ToLowercase(fname), Tag)
    /\ files = <<fname>>
    /\ kind = "Image"
    /\ resFile = <<fname>>

\* C15: in a frame the update set is the pairs of actors whose object
\* resolves, in the order of actors; no pair is updated twice in the frame
\* (the pair being updated is not waiting in the rest of the update set);
\* and pruning keeps the order of the pairs that survive.
C15_UpdatedOnceInOrder ==
    /\ [](pc = "in_update" =>
             \A i \in Entries(snapshot) : Pair(snapshot[i]) # Pair(cur))
    /\ [][ActivationDone =>
             snapshot' = SelectSeq(actors', LAMBDA p : GoAlive(p.go))]_vars
    /\ [][StepEnd =>
             \E keep \in SUBSET Entries(actors) :
                actors' = [i \in 1..Cardinality(keep) |->
                             actors[CHOOSE k \in keep :
                                 Cardinality({j \in keep : j <= k}) = i]]]_vars

\* C16 as stated: the end of a step leaves in actors, in their order,
\* exactly the pairs that were in it after the activation pass of the step
\* and whose component still resolves.
C16_PrunedSinceActivation ==
    [][StepEnd =>
          actors' = SelectSeq(activated, LAMBDA p : ComAlive(p.c))]_vars

\* C16: the end of a step leaves in actors, in their order, exactly the
\* pairs that were in it just before and whose component still resolves,
\* whatever has become of the object; just before, actors is as the
\* activation pass left it, or empty after a reset during the update pass;
\* and a pair whose object is dead is not in the update set of the frame.
C16_PrunedByComponent ==
    /\ [][StepEnd => actors \in {activated, <<>>}]_vars
    /\ [][StepEnd =>
             /\ \A i \in Entries(actors') : ComAlive(actors'[i].c)
             /\ \A i \in Entries(actors) :
                   ComAlive(actors[i].c) =>
                      \E j \in Entries(actors') : actors'[j] = actors[i]
             /\ Len(actors') = Cardinality({i \in Entries(actors) :
                                               ComAlive(actors[i].c)})]_vars
    /\ [][ActivationDone =>
             \A i \in Entries(actors') :
                ~GoAlive(actors'[i].go) =>
                   \A j \in Entries(snapshot') : snapshot'[j] # actors'[i]]_vars

\* C16 witness: the update pass of a step is over, and a started pair whose
\* object is gone and whose component is still held is in actors, waiting
\* for the pruning.
C16_Witness ==
    /\ pc = "updating"
    /\ snapshot = <<>>
    /\ \E i \in Entries(actors) :
          /\ ~GoAlive(actors[i].go)
          /\ ComAlive(actors[i].c)
          /\ lifecycle[actors[i].c] = "started"

\* The operations of one compilation of a texture of kind k, in the order
\* C17 states, each with the target (or the parameter) it is made on.
CompileOrder(k) ==
    LET cube == k = "CubeMap"
        target == IF cube THEN "TextureCubeMap" ELSE "Texture2d"
    IN  <<<<"create_texture", "">>, <<"active_texture", "">>,
          <<IF cube THEN "bind_texture_cube" ELSE "bind_texture", "">>>>
        \o [i \in 1..Uploads(k) |-> <<"tex_image2d", "">>]
        \o <<<<"tex_parameteri", "TextureMagFilter">>,
             <<"tex_parameteri", "TextureMinFilter">>,
             <<"tex_parameteri", "TextureWrapS">>,
             <<"tex_parameteri", "TextureWrapT">>>>
        \o (IF cube THEN <<<<"tex_parameteri", "TextureWrapR">>>> ELSE <<>>)
        \o (IF k = "RenderTexture"
            THEN <<<<"framebuffer_texture2d", "ColorAttachment0">>>>
            ELSE <<>>)
        \o <<<<IF cube THEN "unbind_texture_cube" ELSE "unbind_texture", "">>>>

\* C17: the backend calls of a successful compilation are, in this order:
\* create, activate unit 0, bind on the target of the kind, the upload(s),
\* mag and min filter (both the value of `filtering`), wrap S and wrap T
\* (and wrap R for a cube map) clamped to the edge, the framebuffer
\* attachment for a render texture, and the unbind of the target bound.
C17_CompileOrder ==
    gl_state # None =>
        LET order == CompileOrder(kind)
            target == IF kind = "CubeMap" THEN "TextureCubeMap" ELSE "Texture2d"
        IN  /\ Len(glCalls) >= Len(order)
            /\ \A i \in Entries(order) :
                  /\ glCalls[i].op = order[i][1]
                  /\ glCalls[i].param = order[i][2]
            /\ glCalls[1].tex = gl_state
            /\ glCalls[2].unit = 0
            /\ glCalls[3].tex = gl_state
            /\ \A i \in Entries(order) :
                  glCalls[i].op = "tex_parameteri" =>
                     /\ glCalls[i].target = target
                     /\ glCalls[i].val =
                           (IF glCalls[i].param \in {"TextureMagFilter",
                                                     "TextureMinFilter"}
                            THEN filtering ELSE "ClampToEdge")
            /\ \A i \in (Len(order) + 1)..Len(glCalls) :
                  glCalls[i].op \in {"active_texture", "bind_texture",
                                     "bind_texture_cube"}

\* C17 witness: a cube map filtered Nearest has been compiled and then bound
\* to unit 1.
C17_Witness ==
    /\ kind = "CubeMap"
    /\ filtering = "Nearest"
    /\ gl_state # None
    /\ Len(glCalls) = Len(CompileOrder(kind)) + 2
    /\ glCalls[Len(glCalls) - 1].unit = 1

\* The faces of a cube map, each with the suffix of the file C18 gives it.
CubeFaces ==
    <<<<"TextureCubeMapPositiveX", <<"_", "r", "i", "g", "h", "t">>>>,
      <<"TextureCubeMapNegativeX", <<"_", "l", "e", "f", "t">>>>,
      <<"TextureCubeMapPositiveY", <<"_", "t", "o", "p">>>>,
      <<"TextureCubeMapNegativeY", <<"_", "b", "o", "t", "t", "o", "m">>>>,
      <<"TextureCubeMapPositiveZ", <<"_", "f", "r", "o", "n", "t">>>>,
      <<"TextureCubeMapNegativeZ", <<"_", "b", "a", "c", "k">>>>>>

\* C18: load builds a cube map exactly when gather requested six files and
\* an image otherwise, resource i is loaded from requested file i, and a
\* compiled cube map has uploaded, in this order, the resource of
\* `{f}_right` to +X, `{f}_left` to -X, `{f}_top` to +Y, `{f}_bottom` to -Y,
\* `{f}_front` to +Z and `{f}_back` to -Z.
C18_FaceOrder ==
    apc = "loaded" =>
        /\ kind = (IF Len(files) = 6 THEN "CubeMap" ELSE "Image")
        /\ resFile = (IF Len(files) = 6 THEN files ELSE <<files[1]>>)
        /\ (kind = "CubeMap") = CubeMapName(fname)
        /\ (kind = "CubeMap" /\ gl_state # None) =>
              LET up == CallsOf("tex_image2d")
                  stem == FileStem(fname).v
                  f == SubSeq(stem, 1, Len(stem) - Len(Tag))
                  ext == Extension(fname).v
              IN  /\ Len(up) = 6
                  /\ \A i \in 1..6 :
                        /\ up[i].target = CubeFaces[i][1]
                        /\ EndsWith(resFile[up[i].data],
                                    f \o CubeFaces[i][2] \o <<".">> \o ext)

\* C18 witness: the cube map a/sky_CubeMap.png has been gathered, loaded and
\* compiled.
C18_Witness ==
    /\ apc = "loaded"
    /\ fname = <<"a", "/", "s", "k", "y", "_", "C", "u", "b", "e", "M", "a",
                 "p", ".", "p", "n", "g">>
    /\ kind = "CubeMap"
    /\ gl_state # None
    /\ resFile[3] = <<"a", "/", "s", "k", "y", "_", "t", "o", "p", ".", "p",
                      "n", "g">>

\* C19: a component Remove event and remove_game_object leave actors as it
\* is; remove_game_object changes nothing but the object list, from which it
\* takes the object; and the events of a component that is no Actor leave
\* both actor lists as they are.
C19_RemovalsLeaveActors ==
    /\ [][(\E c \in Actors, keep \in BOOLEAN : RemoveComponent(c, keep)) =>
             actors' = actors]_vars
    /\ [][\A o \in GameObjects :
             RemoveGameObject(o) =>
                /\ actors' = actors
                /\ new_actors' = new_actors
                /\ \A x \in Objects :
                      (x \in Range(golist')) = (x \in Range(golist) /\ x # o)]_vars
    /\ [][(AddPlainComponent \/ RemovePlainComponent) =>
             actors' = actors /\ new_actors' = new_actors]_vars

\* C19 witness: a started actor whose component was removed from its object
\* and is still held by the user is in actors.
C19_Witness ==
    \E i \in Entries(actors) :
        /\ comOwner[actors[i].c] = None
        /\ actors[i].c \in comHeld
        /\ lifecycle[actors[i].c] = "started"

\* C20: a step does not abort during activation while a pair of its batch
\* with both references alive has yet to be started or updated; activation
\* puts every such pair in the update set of the same step; and at the end
\* of the step new_actors holds only pairs added during the step.
C20_StartedAndUpdatedSameFrame ==
    /\ [][(pc = "starting" /\ pc' = "panicked") =>
             \A i \in Entries(starting) :
                ~(ComAlive(starting[i].c) /\ GoAlive(starting[i].go))]_vars
    /\ [][ActivationDone =>
             \A i \in Entries(starting) :
                (ComAlive(starting[i].c) /\ GoAlive(starting[i].go)) =>
                   /\ lifecycle[starting[i].c] # "none"
                   /\ \E j \in Entries(snapshot') : snapshot'[j] = starting[i]]_vars
    /\ [][StepEnd => MidFrame(new_actors) = Entries(new_actors)]_vars

====
